---------------------------- MODULE Spec2Model ----------------------------
(***************************************************************************)
(* A model of give-ideas-bot (src/src/main.py): the tokenizer and its      *)
(* caches, the destructive token extraction, the message chunker, the note *)
(* store, the on_message dispatcher and the process exit code.             *)
(*                                                                         *)
(* A Python str is a sequence of one-character strings; a command grid     *)
(* (List[List[str]]) is a sequence of lines, a line a sequence of tokens.  *)
(***************************************************************************)
EXTENDS Integers, Sequences, FiniteSets, TLC

VARIABLES
    CONFIG,          \* the loaded configuration: cache_sz, chunk_limit
    CACHE,           \* [s2c |-> ..., c2s |-> ...], each a function key -> value
    PFORMAT_CACHE,   \* function key -> formatted text
    tk_text,         \* tokenizer harness: the str the caller holds
    tk_grid,         \* tokenizer harness: the command grid the caller holds
    tk_last,         \* tokenizer harness: the last call and what it returned
    tk_prev,         \* tokenizer harness: the call before the last one
    tk_calls,        \* tokenizer harness: the number of calls made
    sm_message,      \* chunker: the text _send_message was called with
    sm_idx,          \* chunker: chunk_idx of the next iteration of its loop
    sm_out,          \* chunker: what the channel was sent, in order
    sm_returned,     \* chunker: whether _send_message has returned
    env,             \* what main() finds: config file, token, text channels
    phase,           \* where main() is: start, running, ready, stopping, exited
    GLOBAL_STATE,    \* [exit |-> the code main() returns in the end]
    shutdown,        \* which path last called async_exit, how the run ended
    retcode,         \* what main() returned
    DB_SESSION,      \* [rows |-> name -> content, pending |-> rows added]
    cchannel,        \* Bot.cchannel: the channel _send_message sends to
    tasks,           \* the on_message calls waiting at an await
    last,            \* the on_message call that last ran, and what it did
    handled          \* the number of messages on_message was called with

tokvars == <<tk_text, tk_grid, tk_last, tk_prev, tk_calls>>
cachevars == <<CACHE, PFORMAT_CACHE>>
smvars == <<sm_message, sm_idx, sm_out, sm_returned>>
botvars == <<env, phase, GLOBAL_STATE, shutdown, retcode, DB_SESSION,
            cchannel, tasks, last, handled>>
vars == <<CONFIG, CACHE, PFORMAT_CACHE, tk_text, tk_grid, tk_last, tk_prev,
          tk_calls, sm_message, sm_idx, sm_out, sm_returned, env, phase,
          GLOBAL_STATE, shutdown, retcode, DB_SESSION, cchannel, tasks, last,
          handled>>

---------------------------------------------------------------------------
(* Bounds of the model.                                                    *)

\* longest text the tokenizer harness starts from
MaxLen == 3
\* largest cache-sz the configuration is loaded with
MaxCacheSz == 1
\* largest line index handed to get_nth_word
MaxN == 1
\* most calls the tokenizer harness makes in one run
MaxCalls == 3
\* largest chunk-limit the configuration is loaded with
MaxChunkLimit == 2
\* most messages on_message is called with in one run
MaxMessages == 3
\* most on_message calls waiting at an await at one time
MaxTasks == 1
\* most chunks a text handed to the chunker splits into
MaxChunks == 4

---------------------------------------------------------------------------
(* Python str operations, on sequences of characters.                      *)

\* the characters str.strip() removes, among those the model uses
Whitespace == {" ", "\t", "\n", "\r"}

\* Python's None, kept apart from every str (a str holds only 1-char strings)
None == <<"None">>

RECURSIVE LStrip(_)
LStrip(s) ==
    IF s = <<>> \/ Head(s) \notin Whitespace THEN s ELSE LStrip(Tail(s))

RECURSIVE RStrip(_)
RStrip(s) ==
    IF s = <<>> \/ s[Len(s)] \notin Whitespace THEN s
    ELSE RStrip(SubSeq(s, 1, Len(s) - 1))

\* str.strip()
Strip(s) == RStrip(LStrip(s))

\* the index of the first occurrence of character sep in s, 0 when absent
RECURSIVE IndexOf(_, _, _)
IndexOf(s, sep, i) ==
    IF i > Len(s) THEN 0
    ELSE IF s[i] = sep THEN i
    ELSE IndexOf(s, sep, i + 1)

\* str.split(sep) for a one-character sep: always at least one piece
RECURSIVE Split(_, _)
Split(s, sep) ==
    LET i == IndexOf(s, sep, 1)
    IN  IF i = 0 THEN <<s>>
        ELSE <<SubSeq(s, 1, i - 1)>> \o Split(SubSeq(s, i + 1, Len(s)), sep)

\* sep.join(pieces)
RECURSIVE Join(_, _)
Join(pieces, sep) ==
    IF pieces = <<>> THEN <<>>
    ELSE IF Len(pieces) = 1 THEN pieces[1]
    ELSE pieces[1] \o sep \o Join(Tail(pieces), sep)

\* "".join(pieces)
Concat(pieces) == Join(pieces, <<>>)

\* str.startswith(p)
StartsWith(s, p) == Len(s) >= Len(p) /\ SubSeq(s, 1, Len(p)) = p

\* str.removeprefix(p)
RemovePrefix(s, p) ==
    IF StartsWith(s, p) THEN SubSeq(s, Len(p) + 1, Len(s)) ELSE s

\* repr(s) of a str: single quotes unless s holds ' and no "
ReprChar(c, quote) ==
    CASE c = "\\" -> <<"\\", "\\">>
      [] c = "\n" -> <<"\\", "n">>
      [] c = "\t" -> <<"\\", "t">>
      [] c = "\r" -> <<"\\", "r">>
      [] c = quote -> <<"\\", c>>
      [] OTHER -> <<c>>

ReprStr(s) ==
    LET has(c) == \E i \in 1..Len(s) : s[i] = c
        quote == IF has("'") /\ ~has("\"") THEN "\"" ELSE "'"
    IN  <<quote>> \o Concat([i \in 1..Len(s) |-> ReprChar(s[i], quote)])
            \o <<quote>>

\* repr(line) of a list of str
ReprLine(line) ==
    <<"[">> \o Join([i \in 1..Len(line) |-> ReprStr(line[i])], <<",", " ">>)
        \o <<"]">>

\* repr(command) of a list of lists of str
ReprCommand(command) ==
    <<"[">> \o Join([i \in 1..Len(command) |-> ReprLine(command[i])],
                    <<",", " ">>) \o <<"]">>

---------------------------------------------------------------------------
(* json.dumps and json.loads on a command grid.                            *)

JsonChar(c) ==
    CASE c = "\\" -> <<"\\", "\\">>
      [] c = "\"" -> <<"\\", "\"">>
      [] c = "\n" -> <<"\\", "n">>
      [] c = "\t" -> <<"\\", "t">>
      [] c = "\r" -> <<"\\", "r">>
      [] OTHER -> <<c>>

JsonStr(s) ==
    <<"\"">> \o Concat([i \in 1..Len(s) |-> JsonChar(s[i])]) \o <<"\"">>

JsonLine(line) ==
    <<"[">> \o Join([i \in 1..Len(line) |-> JsonStr(line[i])], <<",", " ">>)
        \o <<"]">>

\* json.dumps(result)
json_dumps(command) ==
    <<"[">> \o Join([i \in 1..Len(command) |-> JsonLine(command[i])],
                    <<",", " ">>) \o <<"]">>

JsonUnescape(c) ==
    CASE c = "n" -> "\n"
      [] c = "t" -> "\t"
      [] c = "r" -> "\r"
      [] OTHER -> c

\* the decoder's scan: st = [grid, line, tok, depth, mode]
RECURSIVE JsonScan(_, _, _)
JsonScan(s, i, st) ==
    IF i > Len(s) THEN st.grid
    ELSE LET c == s[i]
             nx == CASE st.mode = "esc" ->
                          [st EXCEPT !.tok = Append(@, JsonUnescape(c)),
                                     !.mode = "str"]
                     [] st.mode = "str" /\ c = "\\" -> [st EXCEPT !.mode = "esc"]
                     [] st.mode = "str" /\ c = "\"" ->
                          [st EXCEPT !.line = Append(@, st.tok), !.mode = "out"]
                     [] st.mode = "str" -> [st EXCEPT !.tok = Append(@, c)]
                     [] c = "\"" -> [st EXCEPT !.tok = <<>>, !.mode = "str"]
                     [] c = "[" /\ st.depth = 0 -> [st EXCEPT !.depth = 1]
                     [] c = "[" -> [st EXCEPT !.depth = 2, !.line = <<>>]
                     [] c = "]" /\ st.depth = 2 ->
                          [st EXCEPT !.grid = Append(@, st.line), !.depth = 1]
                     [] c = "]" -> [st EXCEPT !.depth = 0]
                     [] OTHER -> st
         IN  JsonScan(s, i + 1, nx)

\* json.loads(text) of a text json_dumps wrote
json_loads(text) ==
    JsonScan(text, 1,
             [grid |-> <<>>, line |-> <<>>, tok |-> <<>>, depth |-> 0,
              mode |-> "out"])

---------------------------------------------------------------------------
(* The tokenizer and the caches (main.py 80-118).                          *)

\* len(cache)
Population(cache) == Cardinality(DOMAIN cache)

EmptyCache == <<>>

\* command_to_str joining the lines with a space instead of a newline
CommandToStrOneLine(command) ==
    Strip(Concat([i \in 1..Len(command) |->
                     Join(command[i], <<" ">>) \o <<" ">>]))

\* command_to_str without the final strip
CommandToStrNoStrip(command) ==
    Concat([i \in 1..Len(command) |-> Join(command[i], <<" ">>) \o <<"\n">>])

\* the uncached body of command_to_str (main.py 102)
CommandToStrCompute(command) ==
    Strip(Concat([i \in 1..Len(command) |->
                     Join(command[i], <<" ">>) \o <<"\n">>]))

\* a line split at runs of spaces, as line.split() does: no empty token
SplitRuns(line) ==
    LET toks == Split(line, " ")
        kept == {i \in 1..Len(toks) : toks[i] # <<>>}
        nth(k) == CHOOSE i \in kept : Cardinality({j \in kept : j <= i}) = k
    IN  [k \in 1..Cardinality(kept) |-> toks[nth(k)]]

\* str_to_command splitting each line at runs of spaces
StrToCommandSplitRuns(command) ==
    LET lines == Split(Strip(command), "\n")
    IN  [i \in 1..Len(lines) |-> SplitRuns(lines[i])]

\* the uncached body of str_to_command (main.py 114)
StrToCommandCompute(command) ==
    LET lines == Split(Strip(command), "\n")
    IN  [i \in 1..Len(lines) |-> Split(lines[i], " ")]

\* pprint.pformat of a grid short enough for one line of 80 columns: its repr
pformat(command) == ReprCommand(command)

\* the key pformat_cached builds (main.py 81)
PformatKey(command) ==
    <<"<", "c", "l", "a", "s", "s", " ", "'", "l", "i", "s", "t", "'", ">", ".">>
        \o ReprCommand(command)

\* the cache a call goes on with: cleared when the population exceeds cache-sz
AfterClear(cache) ==
    IF Population(cache) > CONFIG.cache_sz THEN EmptyCache ELSE cache

\* a lookup that tests for the key before the population
IsHitKeyFirst(cache, key) == key \in DOMAIN cache

\* whether the call returns the cached value: the elif of main.py 85, 99, 111
IsHit(cache, key) ==
    ~(Population(cache) > CONFIG.cache_sz) /\ key \in DOMAIN cache

\* command_to_str(command) on cache c2s: [cache, result]
command_to_str(c2s, command) ==
    LET key == ReprCommand(command)
    IN  IF IsHit(c2s, key) THEN [cache |-> c2s, result |-> c2s[key]]
        ELSE LET result == CommandToStrCompute(command)
             IN  [cache |-> (key :> result) @@ AfterClear(c2s),
                  result |-> result]

\* str_to_command(command) on cache s2c: [cache, result]
str_to_command(s2c, command) ==
    IF IsHit(s2c, command)
    THEN [cache |-> s2c, result |-> json_loads(s2c[command])]
    ELSE LET result == StrToCommandCompute(command)
         IN  [cache |-> (command :> json_dumps(result)) @@ AfterClear(s2c),
              result |-> result]

\* pformat_cached(command) on PFORMAT_CACHE: [cache, result]
pformat_cached(pc, command) ==
    LET key == PformatKey(command)
    IN  IF IsHit(pc, key) THEN [cache |-> pc, result |-> pc[key]]
        ELSE LET result == pformat(command)
             IN  [cache |-> (key :> result) @@ AfterClear(pc),
                  result |-> result]

---------------------------------------------------------------------------
(* Destructive token extraction (main.py 144-156).                         *)

\* all(command): every line is a non-empty list
AllLines(command) == \A i \in 1..Len(command) : command[i] # <<>>

\* the for loop, from line index widx (1-based) with the running count found
RECURSIVE get_nth_word_loop(_, _, _, _)
get_nth_word_loop(command, n, widx, found) ==
    IF widx > Len(command) THEN [result |-> None, command |-> command]
    ELSE LET f == IF command # <<>> /\ AllLines(command)
                  THEN found + 1 ELSE found
         IN  IF f - 1 = n
             THEN [result |-> command[widx][1],
                   command |-> [command EXCEPT ![widx] = Tail(@)]]
             ELSE get_nth_word_loop(command, n, widx + 1, f)

\* the for loop counting a line when that line is not empty, whatever the
\* other lines hold
RECURSIVE get_nth_word_own_line_loop(_, _, _, _)
get_nth_word_own_line_loop(command, n, widx, found) ==
    IF widx > Len(command) THEN [result |-> None, command |-> command]
    ELSE LET f == IF command[widx] # <<>> THEN found + 1 ELSE found
         IN  IF f - 1 = n /\ command[widx] # <<>>
             THEN [result |-> command[widx][1],
                   command |-> [command EXCEPT ![widx] = Tail(@)]]
             ELSE get_nth_word_own_line_loop(command, n, widx + 1, f)

\* get_nth_word deleting the whole line instead of its first token
get_nth_word_del_line(command, n) ==
    LET r == get_nth_word_loop(command, n, 1, 0)
    IN  IF r.result = None THEN r
        ELSE [r EXCEPT !.command =
                 [i \in 1..Len(command) |->
                     IF r.command[i] = command[i] THEN command[i] ELSE <<>>]]

\* get_nth_word counting each line on its own
get_nth_word_own_line(command, n) ==
    get_nth_word_own_line_loop(command, n, 1, 0)

\* get_nth_word(command, n), n >= 0: [result, command after the call]
get_nth_word(command, n) == get_nth_word_loop(command, n, 1, 0)

---------------------------------------------------------------------------
(* The message chunker (main.py 163-174).                                  *)

\* the transport's payload size (main.py 165)
ChunkSize == 2000

\* str(n) of an integer n >= 0
RECURSIVE IntToStr(_)
IntToStr(n) ==
    LET digit == <<"0", "1", "2", "3", "4", "5", "6", "7", "8", "9">>
    IN  IF n < 10 THEN <<digit[n + 1]>>
        ELSE IntToStr(n \div 10) \o <<digit[(n % 10) + 1]>>

\* the number of slices message[i : i + 2000], i in range(0, len, 2000)
NumChunks(message) == (Len(message) + ChunkSize - 1) \div ChunkSize

\* the slice of chunk_idx (0-based)
Chunk(message, chunk_idx) ==
    LET lo == chunk_idx * ChunkSize
        hi == IF lo + ChunkSize < Len(message) THEN lo + ChunkSize
              ELSE Len(message)
    IN  SubSeq(message, lo + 1, hi)

\* the truncation warning (main.py 170)
ChunkWarning ==
    <<"*", "*", "*", "M", "e", "s", "s", "a", "g", "e", " ", "c", "h", "u",
      "n", "k", " ", "c", "o", "u", "n", "t", " ", "e", "x", "c", "e", "e",
      "d", "e", "d", " ", "(">> \o IntToStr(CONFIG.chunk_limit)
        \o <<")", ",", " ", "m", "e", "s", "s", "a", "g", "e", " ", "t", "o",
             "o", " ", "l", "o", "n", "g", "!", "*", "*", "*">>

\* the test of main.py 167 with >= in place of >
OverLimitAtLimit(chunk_idx) == chunk_idx >= CONFIG.chunk_limit

\* the test of main.py 167
OverLimit(chunk_idx) == chunk_idx > CONFIG.chunk_limit

\* one iteration of the for loop of _send_message at chunk_idx: what it
\* sends to the channel, and whether _send_message returns after it
send_message_iter(message, chunk_idx) ==
    IF chunk_idx >= NumChunks(message)
    THEN [sent |-> <<>>, returned |-> TRUE]
    ELSE IF OverLimit(chunk_idx)
    THEN [sent |-> <<[kind |-> "warning", text |-> ChunkWarning]>>,
          returned |-> TRUE]
    ELSE [sent |-> <<[kind |-> "chunk",
                      text |-> Chunk(message, chunk_idx) \o <<"\n">>]>>,
          returned |-> FALSE]

---------------------------------------------------------------------------
(* The bot: configuration texts, the guild, the note store and the         *)
(* handlers (main.py 30-40, 121-122, 176-291, 445-458).                    *)

\* the grave accent, which a string of this language cannot hold
Backtick == "grave"

\* CONFIG["prefix"] and CONFIG["note-prefix"] (main.py 31-32)
Prefix == <<"'">>
NotePrefix == <<"\"">>

\* CONFIG["hello-message"] and CONFIG["bye-message"] (main.py 33-34)
HelloMessage == <<"H", "e", "l", "l", "o", " ", "w", "o", "r", "l", "d">>
ByeMessage == <<"G", "o", "o", "d", "b", "y", "e", " ", "w", "o", "r", "l", "d">>

\* the roles of the guild: the implicit base role and two others
Roles == {"everyone", "member", "other"}

\* role.name
RoleName(role) ==
    CASE role = "everyone" -> <<"@", "e", "v", "e", "r", "y", "o", "n", "e">>
      [] role = "member" -> <<"m", "e", "m", "b", "e", "r">>
      [] role = "other" -> <<"o", "t", "h", "e", "r">>

\* guild.get_member(self.user.id).roles: the roles the bot itself holds
BotRoles == {"everyone", "member"}

\* the channels messages arrive in: two the bot may send to, one it may only
\* read, and a direct-message channel, which has no guild
Channels == {"ch1", "ch2", "ro", "dm"}
HasGuild(channel) == channel # "dm"
CanSend(channel) == channel # "ro"

\* the authors: a member sharing a role with the bot, one holding only the
\* base role, one holding a role the bot does not hold, and another bot
Alice == [id |-> <<"1">>, bot |-> FALSE, roles |-> {"everyone", "member"}]
Eve == [id |-> <<"2">>, bot |-> FALSE, roles |-> {"everyone"}]
Carol == [id |-> <<"3">>, bot |-> FALSE, roles |-> {"everyone", "other"}]
Robo == [id |-> <<"4">>, bot |-> TRUE, roles |-> {"everyone", "member"}]

\* m(content, message) (main.py 121-122)
M(content, author) == <<"<", "@">> \o author.id \o <<">", " ">> \o content

\* the names cmd_<name> the parser defines (main.py 199-524)
HandlerNames ==
    {<<"s", "a", "y">>,
     <<"s", "e", "t">>,
     <<"d", "e", "l">>,
     <<"c", "y", "a">>,
     <<"l", "i", "s", "t">>,
     <<"h", "e", "l", "p">>,
     <<"s", "q", "l">>,
     <<"c", "o", "n", "f", "i", "g">>,
     <<"s", "h">>,
     <<"b", "o", "t", "f", "e", "t", "c", "h">>,
     <<"s", "a", "y", "d">>,
     <<"d", "u", "m", "p", "c", "a", "c", "h", "e">>,
     <<"d", "u", "m", "p", "c", "a", "c", "h", "e", "p">>,
     <<"s", "t", "a", "t", "u", "s">>,
     <<"w", "a", "r", "m">>,
     <<"b", "a", "n", "a", "n", "a">>}

\* handler.__doc__ with its lines stripped (main.py 186-188)
HandlerDoc(what) ==
    CASE what = "say" ->
           <<"R", "e", "p", "e", "a", "t", " ", "a", " ", "s", "p", "e",
             "c", "i", "f", "i", "e", "d", " ", "s", "t", "r", "i", "n",
             "g", "\n", "U", "s", "a", "g", "e", ":", " ", "s", "a", "y",
             " ", "<", "c", "o", "n", "t", "e", "n", "t", ".", ".", ".",
             ">">>
      [] what = "set" ->
           <<"S", "e", "t", " ", "a", " ", "n", "o", "t", "e", " ", "t",
             "o", " ", "a", " ", "v", "a", "l", "u", "e", " ", "(", "s",
             "a", "v", "e", " ", "i", "t", ")", "\n", "U", "s", "a", "g",
             "e", ":", " ", "s", "e", "t", " ", "<", "n", "a", "m", "e",
             ">", " ", "<", "c", "o", "n", "t", "e", "n", "t", ".", ".",
             ".", ">">>
      [] what = "del" ->
           <<"D", "e", "l", "e", "t", "e", " ", "a", " ", "n", "o", "t",
             "e", "\n", "U", "s", "a", "g", "e", ":", " ", "d", "e", "l",
             " ", "<", "n", "a", "m", "e", ">">>
      [] what = "sayd" ->
           <<"R", "e", "p", "e", "a", "t", " ", "a", " ", "s", "p", "e",
             "c", "i", "f", "i", "e", "d", " ", "s", "t", "r", "i", "n",
             "g", " ", "a", "n", "d", " ", "t", "h", "e", "n", " ", "d",
             "e", "l", "e", "t", "e", " ", "t", "h", "e", " ", "o", "r",
             "i", "g", "i", "n", "a", "l", " ", "m", "e", "s", "s", "a",
             "g", "e", "\n", "U", "s", "a", "g", "e", ":", " ", "s", "a",
             "y", "d", " ", "<", "c", "o", "n", "t", "e", "n", "t", ".",
             ".", ".", ">">>

\* the text _send_help(what, message) sends for a handler with a docstring
\* (main.py 179-197)
HelpText(what, author) ==
    M(<<"\n", Backtick, Backtick, Backtick, "\n">> \o HandlerDoc(what)
          \o <<"\n", Backtick, Backtick, Backtick>>, author)

\* f"Note {note_name!r} <what>"
NoteText(note_name, what) ==
    <<"N", "o", "t", "e", " ">> \o ReprStr(note_name) \o <<" ">> \o what

Saved == <<"s", "a", "v", "e", "d">>
AlreadyExists == <<"a", "l", "r", "e", "a", "d", "y", " ", "e", "x", "i", "s", "t",
      "s">>
DoesntExist == <<"d", "o", "e", "s", "n", "'", "t", " ", "e", "x", "i", "s", "t">>
Deleted == <<"d", "e", "l", "e", "t", "e", "d">>
NotFound == <<"n", "o", "t", " ", "f", "o", "u", "n", "d">>

PermissionDenied ==
    <<"Y", "o", "u", " ", "h", "a", "v", "e", " ", "n", "o", " ", "p", "e",
      "r", "m", "i", "s", "s", "i", "o", "n", " ", "t", "o", " ", "u", "s",
      "e", " ", "t", "h", "i", "s", " ", "b", "o", "t">>

NoCommand ==
    <<"N", "o", " ", "c", "o", "m", "m", "a", "n", "d", " ", "o", "r", " ",
      "n", "o", "t", "e", " ", "n", "a", "m", "e", " ", "s", "p", "e", "c",
      "i", "f", "i", "e", "d">>

\* f"Unknown command: {cmd}", the name as it is
UnknownCommandPlain(cmd) ==
    <<"U", "n", "k", "n", "o", "w", "n", " ", "c", "o", "m", "m", "a", "n",
      "d", ":", " ">> \o cmd

\* f"Unknown command: {cmd!r}"
UnknownCommand(cmd) ==
    <<"U", "n", "k", "n", "o", "w", "n", " ", "c", "o", "m", "m", "a", "n",
      "d", ":", " ">> \o ReprStr(cmd)

\* the quoting with ">" alone before each line
QuoteNoSpace(content) ==
    LET lines == Split(content, "\n")
    IN  Join([i \in 1..Len(lines) |-> <<">">> \o lines[i]], <<"\n">>)

\* the note's content quoted line by line (main.py 594)
Quote(content) ==
    LET lines == Split(content, "\n")
    IN  Join([i \in 1..Len(lines) |-> <<">", " ">> \o lines[i]], <<"\n">>)

\* the text cmd_list sends for the names in the order the query gave them
\* (main.py 277-291)
ListText(names) ==
    LET notes_list ==
            IF names = <<>> THEN <<"*", "N", "o", " ", "n", "o", "t", "e", "s", " ", "f", "o", "u", "n",
      "d", "*">>
            ELSE Join([i \in 1..Len(names) |->
                          <<"*", "*", "-", "*", "*", " ">> \o names[i]],
                      <<"\n">>)
    IN  <<"N", "o", "t", "e", "s", ":", "\n", "\n">> \o notes_list
          \o <<"\n", "\n", "T", "o", " ", "i", "n", "v", "o", "k", "e",
               "/", "e", "x", "p", "a", "n", "d", " ", "a", " ", "n", "o",
               "t", "e", ",", " ", "t", "y", "p", "e", " ", "'">>
          \o NotePrefix
          \o <<"<", "n", "o", "t", "e", " ", "n", "a", "m", "e", ">", "'",
               ",", "\n", "f", "o", "r", " ", "e", "x", "a", "m", "p", "l",
               "e", ":", " ">>
          \o NotePrefix \o <<"H", "e", "l", "l", "o">>

\* the first line of every traceback format_exc() returns; the rest of the
\* traceback depends on the exception and is left out
Traceback == <<"T", "r", "a", "c", "e", "b", "a", "c", "k", " ", "(", "m", "o", "s",
      "t", " ", "r", "e", "c", "e", "n", "t", " ", "c", "a", "l", "l", " ",
      "l", "a", "s", "t", ")", ":">>

\* the failure report of the dispatcher (main.py 649-660)
FailureReport(author) ==
    M(<<"\n", "O", "o", "p", "s", "!", " ", "R", "a", "n", " ", "i", "n",
        "t", "o", " ", "a", "n", " ", "e", "r", "r", "o", "r", ":", "\n",
        "\n", Backtick, Backtick, Backtick, "p", "y", "\n">> \o Traceback
          \o <<"\n", Backtick, Backtick, Backtick, "\n">>, author)

\* string.replace("```", "`\`\`"): uncode(string, "```") (main.py 125-126)
RECURSIVE Uncode3(_)
Uncode3(s) ==
    IF Len(s) < 3 THEN s
    ELSE IF SubSeq(s, 1, 3) = <<Backtick, Backtick, Backtick>>
    THEN <<Backtick, "\\", Backtick, "\\", Backtick>> \o Uncode3(SubSeq(s, 4, Len(s)))
    ELSE <<Head(s)>> \o Uncode3(Tail(s))

\* the report of a command without valid tokens (main.py 664-681)
InvalidTokens(command_str, formatted_command, author) ==
    M(<<"Y", "o", "u", "r", " ", "c", "o", "m", "m", "a", "n", "d", " ",
        "e", "x", "p", "r", "e", "s", "s", "i", "o", "n", " ", "d", "i",
        "d", " ", "n", "o", "t", " ", "r", "e", "t", "u", "r", "n", " ",
        "a", "n", "y", " ", "v", "a", "l", "i", "d", " ", "t", "o", "k",
        "e", "n", "s", "\n", Backtick, Backtick, Backtick, "p", "y", "\n">>
          \o Uncode3(ReprStr(command_str)
                         \o <<"\n", "\n", "#", " ", "T", "u", "r", "n", "e",
                             "d", " ", "i", "n", "t", "o", ":", "\n",
                             "\n">>
                         \o formatted_command)
          \o <<"\n", Backtick, Backtick, Backtick, "\n">>, author)

\* the store's names in every order a query without ORDER BY may give them
Orders(notes) ==
    {ord \in [1..Cardinality(DOMAIN notes) -> DOMAIN notes] :
        \A i, j \in DOMAIN ord : i # j => ord[i] # ord[j]}

\* the names as the handlers are called in this model
Name(handler) ==
    CASE handler = "say" -> <<"s", "a", "y">>
      [] handler = "set" -> <<"s", "e", "t">>
      [] handler = "del" -> <<"d", "e", "l">>
      [] handler = "cya" -> <<"c", "y", "a">>
      [] handler = "list" -> <<"l", "i", "s", "t">>
      [] handler = "sayd" -> <<"s", "a", "y", "d">>

\* DB_SESSION.add(Note(name, content)): the row waits for the next flush
session_add(db, name, content) ==
    [db EXCEPT !.pending = @ \cup {[name |-> name, content |-> content]}]

\* DB_SESSION.commit() with rows replacing the rows of the same name
session_commit_replace(db) ==
    [ok |-> TRUE,
     db |-> [rows |-> [n \in DOMAIN db.rows \cup {p.name : p \in db.pending} |->
                          IF \E p \in db.pending : p.name = n
                          THEN (CHOOSE p \in db.pending : p.name = n).content
                          ELSE db.rows[n]],
             pending |-> {}]]

\* DB_SESSION.commit(): the pending rows are inserted; a row whose primary
\* key (main.py 58) is taken raises IntegrityError and nothing is inserted
session_commit(db) ==
    IF \E p \in db.pending : p.name \in DOMAIN db.rows
    THEN [ok |-> FALSE, db |-> db]
    ELSE [ok |-> TRUE,
          db |-> [rows |-> [n \in DOMAIN db.rows
                                    \cup {p.name : p \in db.pending} |->
                               IF n \in DOMAIN db.rows THEN db.rows[n]
                               ELSE (CHOOSE p \in db.pending :
                                        p.name = n).content],
                  pending |-> {}]]

\* DB_SESSION.rollback(): the pending rows are dropped
session_rollback(db) == [db EXCEPT !.pending = {}]

\* DELETE FROM notes with no WHERE clause, committed
session_delete_all(db, note_name) == [db EXCEPT !.rows = <<>>]

\* DELETE FROM notes WHERE name = note_name, committed
session_delete(db, note_name) ==
    [db EXCEPT !.rows = [n \in DOMAIN db.rows \ {note_name} |-> db.rows[n]]]

\* what one call of on_message comes to before it first waits: the branch
\* taken, the handler called, the store and the caches it leaves, the text
\* it hands to _send_message, whether that happens inside the try of
\* main.py 642, and what the handler awaits around it
Outcome(path, handler, outcome, name, db, cache, pfc, text, in_try, await) ==
    [path |-> path, handler |-> handler, outcome |-> outcome,
     note_name |-> name, db |-> db, cache |-> cache, pfc |-> pfc,
     text |-> text, in_try |-> in_try, await |-> await]

\* a handler's part of it
Handled(handler, outcome, note_name, db, cache, text, await) ==
    [handler |-> handler, outcome |-> outcome, note_name |-> note_name,
     db |-> db, cache |-> cache, text |-> text, await |-> await]

\* cmd_say (main.py 199-213)
cmd_say(message, command, db, cache) ==
    LET say_content == command_to_str(cache.c2s, command)
        cache2 == [cache EXCEPT !.c2s = say_content.cache]
    IN  IF say_content.result = <<>>
        THEN Handled("say", "help", None, db, cache2,
                     HelpText("say", message.author), "send")
        ELSE Handled("say", "say", None, db, cache2, say_content.result,
                     "send")

\* cmd_set (main.py 215-235)
cmd_set(message, command, db, cache) ==
    LET word == get_nth_word(command, 0)
        note_name == word.result
    IN  IF note_name = None
        THEN Handled("set", "help", None, db, cache,
                     HelpText("set", message.author), "send")
        ELSE LET content == command_to_str(cache.c2s, word.command)
                 cache2 == [cache EXCEPT !.c2s = content.cache]
                 commit == session_commit(
                               session_add(db, note_name, content.result))
             IN  IF commit.ok
                 THEN Handled("set", "saved", note_name, commit.db, cache2,
                              M(NoteText(note_name, Saved), message.author),
                              "send")
                 ELSE Handled("set", "exists", note_name,
                              session_rollback(commit.db), cache2,
                              M(NoteText(note_name, AlreadyExists),
                                message.author),
                              "send")

\* cmd_del (main.py 237-256)
cmd_del(message, command, db, cache) ==
    LET word == get_nth_word(command, 0)
        note_name == word.result
    IN  IF note_name = None
        THEN Handled("del", "help", None, db, cache,
                     HelpText("del", message.author), "send")
        ELSE IF note_name \notin DOMAIN db.rows
        THEN Handled("del", "missing", note_name, db, cache,
                     M(NoteText(note_name, DoesntExist), message.author),
                     "send")
        ELSE Handled("del", "deleted", note_name,
                     session_delete(db, note_name), cache,
                     M(NoteText(note_name, Deleted), message.author), "send")

\* cmd_cya (main.py 258-267): async_exit follows the awaited send
cmd_cya(message, command, db, cache) ==
    Handled("cya", "bye", None, db, cache, ByeMessage, "send-exit")

\* cmd_list (main.py 269-291), names being the rows in the query's order
cmd_list(message, command, names, db, cache) ==
    Handled("list", "listing", None, db, cache, ListText(names), "send")

\* cmd_sayd (main.py 445-458): message.delete() is awaited before the send
cmd_sayd(message, command, db, cache) ==
    LET say == command_to_str(cache.c2s, command)
        cache2 == [cache EXCEPT !.c2s = say.cache]
    IN  IF say.result = <<>>
        THEN Handled("sayd", "help", None, db, cache2,
                     HelpText("sayd", message.author), "send")
        ELSE Handled("sayd", "say", None, db, cache2, say.result,
                     "delete-send")

\* getattr(self.parser, f"cmd_{cmd}") called (main.py 631, 643)
handler(cmd, message, command, names, db, cache) ==
    CASE cmd = Name("say") -> cmd_say(message, command, db, cache)
      [] cmd = Name("set") -> cmd_set(message, command, db, cache)
      [] cmd = Name("del") -> cmd_del(message, command, db, cache)
      [] cmd = Name("cya") -> cmd_cya(message, command, db, cache)
      [] cmd = Name("list") -> cmd_list(message, command, names, db, cache)
      [] cmd = Name("sayd") -> cmd_sayd(message, command, db, cache)

\* a handler h called (awaited) on the branch path of on_message
Awaited(path, h, note_name, pfc, in_try) ==
    Outcome(path, h.handler, h.outcome, note_name, h.db, h.cache, pfc,
            h.text, in_try, h.await)

\* the test of main.py 598 without the strip
IsEmptyName(note_name) == note_name = <<>>

\* not note_name.strip() (main.py 598)
IsBlank(note_name) == Strip(note_name) = <<>>

\* the note-prefix branch of on_message (main.py 587-603)
note_path(message, command, names, db, cache, pfc) ==
    LET note_name == RemovePrefix(command[1][1], NotePrefix)
    IN  IF note_name \in DOMAIN db.rows
        THEN Outcome("note", "none", "quote", note_name, db, cache, pfc,
                     Quote(db.rows[note_name]), FALSE, "send")
        ELSE IF IsBlank(note_name)
        THEN Awaited("note", cmd_list(message, command, names, db, cache),
                    note_name, pfc, FALSE)
        ELSE Outcome("note", "none", "notfound", note_name, db, cache, pfc,
                     M(NoteText(note_name, NotFound), message.author),
                     FALSE, "send")

\* a gate admitting any role of the author's but the base role
GateAnyOtherRole(message) ==
    \E role \in message.author.roles : role # "everyone"

\* the test of main.py 613-616
Gate(message) ==
    \E role \in BotRoles :
        role \in message.author.roles /\ RoleName(role)[1] # "@"

\* the prefix branch of on_message (main.py 605-681)
command_path(message, command_str, command, names, db, cache, pfc) ==
    IF ~HasGuild(message.channel)
    THEN Outcome("nobotroles", "none", "return", None, db, cache, pfc,
                 None, FALSE, "none")
    ELSE IF ~Gate(message)
    THEN Outcome("denied", "none", "denied", None, db, cache, pfc,
                 M(PermissionDenied, message.author), FALSE, "send")
    ELSE IF command = <<>>
    THEN Outcome("nocommand", "none", "nocommand", None, db, cache, pfc,
                 M(NoCommand, message.author), FALSE, "send")
    ELSE LET word == get_nth_word(command, 0)
             cmd == word.result
         IN  IF cmd = None
             THEN LET formatted_command == pformat_cached(pfc, command)
                  IN  Outcome("invalid", "none", "invalid", None, db, cache,
                              formatted_command.cache,
                              InvalidTokens(command_str,
                                            formatted_command.result,
                                            message.author),
                              FALSE, "send")
             ELSE IF cmd \notin HandlerNames
             THEN Outcome("unknown", "none", "unknown", None, db, cache,
                          pfc, M(UnknownCommand(cmd), message.author), FALSE,
                          "send")
             ELSE LET h == handler(cmd, message, word.command, names, db,
                                   cache)
                  IN  Awaited("handler", h, h.note_name, pfc, TRUE)

\* the test of main.py 576-579 without message.author.bot
AcceptedAnyAuthor(message) ==
    \E p \in {Prefix, NotePrefix} : StartsWith(message.content, p)

\* the test of main.py 576-579
Accepted(message) ==
    /\ ~message.author.bot
    /\ \E p \in {Prefix, NotePrefix} : StartsWith(message.content, p)

\* on_message (main.py 575-681) up to the first await, from the store db and
\* the caches cache and pfc
on_message(message, names, db, cache, pfc) ==
    IF ~Accepted(message)
    THEN Outcome("ignored", "none", "return", None, db, cache, pfc, None,
                 FALSE, "none")
    ELSE LET command_str == RemovePrefix(message.content, Prefix)
             command == str_to_command(cache.s2c, command_str)
             cache2 == [cache EXCEPT !.s2c = command.cache]
         IN  IF StartsWith(command_str, NotePrefix)
             THEN note_path(message, command.result, names, db, cache2, pfc)
             ELSE command_path(message, command_str, command.result, names,
                               db, cache2, pfc)

\* a message: its content, its author and the channel it arrives in
Message(content, author, channel) ==
    [content |-> content, author |-> author, channel |-> channel]

NoMessage == Message(<<>>, Robo, "dm")

NoCode == "none"
NoChannel == "None"

\* the record kept of one on_message call, begun from the store before
Call(message, r, before) ==
    [message |-> message, path |-> r.path, handler |-> r.handler,
     outcome |-> r.outcome, note_name |-> r.note_name, text |-> r.text,
     before |-> before, after |-> r.db, sent |-> <<>>, deleted |-> FALSE,
     raised |-> FALSE, reported |-> FALSE, propagated |-> FALSE,
     done |-> FALSE]

NoCallYet ==
    [message |-> NoMessage, path |-> "none", handler |-> "none",
     outcome |-> "none", note_name |-> None, text |-> None,
     before |-> [rows |-> <<>>, pending |-> {}],
     after |-> [rows |-> <<>>, pending |-> {}], sent |-> <<>>,
     deleted |-> FALSE, raised |-> FALSE, reported |-> FALSE,
     propagated |-> FALSE, done |-> FALSE]

\* the module's globals before main() runs (main.py 42-52)
InitGlobals ==
    /\ phase = "start"
    /\ GLOBAL_STATE = [exit |-> 0]
    /\ shutdown = [path |-> "none", cause |-> "none"]
    /\ retcode = NoCode
    /\ DB_SESSION = [rows |-> <<>>, pending |-> {}]
    /\ cchannel = NoChannel
    /\ tasks = <<>>
    /\ last = NoCallYet
    /\ handled = 0

\* the bot left out
InitIdleBot ==
    /\ env = [config |-> TRUE, token |-> TRUE, text_channels |-> <<>>]
    /\ InitGlobals

---------------------------------------------------------------------------
(* The tokenizer harness: a caller holding one str and one grid applies    *)
(* the tokenizer functions and get_nth_word to what it holds.              *)

\* the characters of the harness's texts
Alphabet == {"a", " ", "\n", "\t"}

\* every text of at most MaxLen characters
Texts == UNION {[1..k -> Alphabet] : k \in 0..MaxLen}

\* a text read as a grid, nothing trimmed
RawGrid(s) ==
    LET lines == Split(s, "\n")
    IN  [i \in 1..Len(lines) |-> Split(lines[i], " ")]

\* the same grid with its one-empty-token lines emptied
EmptiedGrid(s) ==
    LET g == RawGrid(s)
    IN  [i \in 1..Len(g) |-> IF g[i] = << <<>> >> THEN <<>> ELSE g[i]]

\* a text with each of its spaces and newlines doubled
RECURSIVE Spread(_)
Spread(s) ==
    IF s = <<>> THEN <<>>
    ELSE IF Head(s) \in {" ", "\n"} THEN <<Head(s), Head(s)>> \o Spread(Tail(s))
    ELSE <<Head(s)>> \o Spread(Tail(s))

\* the texts the harness starts from: every short text, and those with
\* runs of spaces and newlines
StartTexts == Texts \cup {Spread(s) : s \in Texts}

\* the grids the harness starts from: with and without empty lines and
\* empty tokens, and the empty grid
Grids == {RawGrid(s) : s \in Texts} \cup {EmptiedGrid(s) : s \in Texts}
             \cup {<<>>}

\* the default configuration (main.py 30-40)
DefaultCacheSz == 500
DefaultChunkLimit == 4

NoCall == [op |-> "none", arg |-> <<>>, n |-> 0, res |-> <<>>,
           keys |-> {}, key |-> <<>>]

\* no _send_message call under way
InitIdleChunker ==
    /\ sm_message = <<>>
    /\ sm_idx = 0
    /\ sm_out = <<>>
    /\ sm_returned = TRUE

\* no tokenizer harness call made
InitIdleTok ==
    /\ tk_text = <<>>
    /\ tk_grid = <<>>
    /\ tk_last = NoCall
    /\ tk_prev = NoCall
    /\ tk_calls = 0

InitCaches ==
    /\ CACHE = [s2c |-> EmptyCache, c2s |-> EmptyCache]
    /\ PFORMAT_CACHE = EmptyCache

\* the texts of earlier calls: "a", "aa", ...
WarmText(k) == [i \in 1..k |-> "a"]
WarmGrid(k) == StrToCommandCompute(WarmText(k))

\* the entries earlier calls on the first n warm texts left in each cache
WarmS2C(n) ==
    [t \in {WarmText(k) : k \in 1..n} |-> json_dumps(StrToCommandCompute(t))]
WarmC2S(n) ==
    [r \in {ReprCommand(WarmGrid(k)) : k \in 1..n} |->
        LET k == CHOOSE k \in 1..n : ReprCommand(WarmGrid(k)) = r
        IN  CommandToStrCompute(WarmGrid(k))]
WarmPformat(n) ==
    [r \in {PformatKey(WarmGrid(k)) : k \in 1..n} |->
        LET k == CHOOSE k \in 1..n : PformatKey(WarmGrid(k)) = r
        IN  pformat(WarmGrid(k))]

\* caches that earlier calls have filled up to cache-sz
FullCaches ==
    /\ CACHE = [s2c |-> WarmS2C(CONFIG.cache_sz), c2s |-> WarmC2S(CONFIG.cache_sz)]
    /\ PFORMAT_CACHE = WarmPformat(CONFIG.cache_sz)

InitTok ==
    /\ CONFIG \in [cache_sz : 0..MaxCacheSz, chunk_limit : {DefaultChunkLimit}]
    /\ FullCaches
    /\ \/ tk_text \in StartTexts /\ tk_grid = <<>>
       \/ tk_text = <<>> /\ tk_grid \in Grids
    /\ tk_last = NoCall
    /\ tk_prev = NoCall
    /\ tk_calls = 0
    /\ InitIdleChunker
    /\ InitIdleBot

\* one more harness call, recorded
Called(call) ==
    /\ tk_calls < MaxCalls
    /\ tk_calls' = tk_calls + 1
    /\ tk_last' = call
    /\ tk_prev' = [tk_last EXCEPT !.keys = {}, !.key = <<>>]

\* tk_grid = str_to_command(tk_text)
TokStrToCommand ==
    LET r == str_to_command(CACHE.s2c, tk_text)
    IN  /\ CACHE' = [CACHE EXCEPT !.s2c = r.cache]
        /\ tk_grid' = r.result
        /\ Called([op |-> "s2c", arg |-> tk_text, n |-> 0,
                       res |-> r.result, keys |-> DOMAIN CACHE.s2c,
                       key |-> tk_text])
        /\ UNCHANGED <<CONFIG, PFORMAT_CACHE, tk_text, smvars, botvars>>

\* tk_text = command_to_str(tk_grid)
TokCommandToStr ==
    LET r == command_to_str(CACHE.c2s, tk_grid)
    IN  /\ CACHE' = [CACHE EXCEPT !.c2s = r.cache]
        /\ tk_text' = r.result
        /\ Called([op |-> "c2s", arg |-> tk_grid, n |-> 0,
                       res |-> r.result, keys |-> DOMAIN CACHE.c2s,
                       key |-> ReprCommand(tk_grid)])
        /\ UNCHANGED <<CONFIG, PFORMAT_CACHE, tk_grid, smvars, botvars>>

\* pformat_cached(tk_grid)
TokPformat ==
    LET r == pformat_cached(PFORMAT_CACHE, tk_grid)
    IN  /\ PFORMAT_CACHE' = r.cache
        /\ Called([op |-> "pformat", arg |-> tk_grid, n |-> 0,
                       res |-> r.result, keys |-> DOMAIN PFORMAT_CACHE,
                       key |-> PformatKey(tk_grid)])
        /\ UNCHANGED <<CONFIG, CACHE, tk_text, tk_grid, smvars, botvars>>

\* a cache whose entry for the grid before shares the caller's list, and so
\* holds the grid after once the caller has mutated it
SharedWithCaller(s2c, before, after) ==
    [k \in DOMAIN s2c |->
        IF s2c[k] = json_dumps(before) THEN json_dumps(after) ELSE s2c[k]]

\* what a caller's mutation of a grid str_to_command returned does to the
\* cache: nothing, the cache holds the json text (main.py 112, 116)
AfterMutation(s2c, before, after) == s2c

\* get_nth_word(tk_grid, n): the held grid is mutated in place
TokGetNthWord ==
    \E n \in 0..MaxN :
        LET r == get_nth_word(tk_grid, n)
        IN  /\ tk_grid' = r.command
            /\ CACHE' = [CACHE EXCEPT
                            !.s2c = AfterMutation(@, tk_grid, r.command)]
            /\ Called([op |-> "nth", arg |-> tk_grid, n |-> n,
                           res |-> r.result, keys |-> {}, key |-> <<>>])
            /\ UNCHANGED <<CONFIG, PFORMAT_CACHE, tk_text, smvars, botvars>>

NextTok ==
    \/ TokStrToCommand
    \/ TokCommandToStr
    \/ TokPformat
    \/ TokGetNthWord

SpecTok == InitTok /\ [][NextTok]_vars

---------------------------------------------------------------------------
(* The chunker on its own: one _send_message call on a long text.          *)

\* a text of n characters, each told apart by its position
LongText(n) == [i \in 1..n |-> i]

\* lengths at and around the chunk boundaries, up to MaxChunks chunks
ChunkLengths ==
    {0} \cup {k * ChunkSize + d :
                 k \in 0..(MaxChunks - 1), d \in {1, ChunkSize - 1, ChunkSize}}

InitChunk ==
    /\ CONFIG \in [cache_sz : {DefaultCacheSz}, chunk_limit : 0..MaxChunkLimit]
    /\ InitCaches
    /\ InitIdleTok
    /\ InitIdleBot
    /\ sm_message \in {LongText(n) : n \in ChunkLengths}
    /\ sm_idx = 0
    /\ sm_out = <<>>
    /\ sm_returned = FALSE

\* one iteration of the loop of _send_message
SmIterate ==
    /\ ~sm_returned
    /\ LET r == send_message_iter(sm_message, sm_idx)
       IN  /\ sm_out' = sm_out \o r.sent
           /\ sm_returned' = r.returned
    /\ sm_idx' = sm_idx + 1
    /\ UNCHANGED <<CONFIG, cachevars, tokvars, sm_message, botvars>>

NextChunk == SmIterate

SpecChunk == InitChunk /\ [][NextChunk]_vars

---------------------------------------------------------------------------
(* The bot: main(), on_ready and on_message (Spec).                        *)

\* guild.text_channels of the one guild, for the guilds main() may find
Layouts == {<<>>, <<"ro">>, <<"ro", "ch1", "ch2">>}

\* the messages the guild's members and the bot's correspondents send
Messages ==
    {Message(<<"'", "s", "e", "t", " ", "g", "r", "e", "e", "t", "i", "n",
               "g", " ", "h", "e", "l", "l", "o", " ", "t", "h", "e", "r",
               "e">>,
             Alice, "ch1"),
     Message(<<"'", "s", "e", "t", " ", "g", "r", "e", "e", "t", "i", "n",
               "g", " ", "b", "y", "e">>,
             Alice, "ch2"),
     Message(<<"'", "s", "e", "t", " ", " ", "x">>,
             Alice, "ch1"),
     Message(<<"'", "d", "e", "l", " ", "g", "r", "e", "e", "t", "i", "n",
               "g">>,
             Alice, "ch1"),
     Message(<<"'", "\"", "g", "r", "e", "e", "t", "i", "n", "g">>,
             Eve, "ch1"),
     Message(<<"\"">>,
             Eve, "ch1"),
     Message(<<"\"", "\t", " ", "x">>,
             Alice, "ch1"),
     Message(<<"\"", "n", "o", "p", "e">>,
             Carol, "ch2"),
     Message(<<"'", "l", "i", "s", "t">>,
             Eve, "ch1"),
     Message(<<"'", "l", "i", "s", "t">>,
             Carol, "ch1"),
     Message(<<"'", "l", "i", "s", "t">>,
             Alice, "ro"),
     Message(<<"\"">>,
             Alice, "ro"),
     Message(<<"'", "l", "i", "s", "t">>,
             Alice, "dm"),
     Message(<<"'", "l", "i", "s", "t">>,
             Robo, "ch1"),
     Message(<<"'", "c", "y", "a">>,
             Alice, "ch1"),
     Message(<<"'", "s", "a", "y", "d", " ", "h", "i">>,
             Alice, "ch1"),
     Message(<<"'", "s", "a", "y", " ", "h", "i">>,
             Alice, "ch2"),
     Message(<<"'", "s", "a", "y">>,
             Alice, "ch1"),
     Message(<<"'", "s", "e", "t">>,
             Alice, "ch1"),
     Message(<<"'", "n", "o", "p", "e">>,
             Alice, "ch1"),
     Message(<<"'">>,
             Alice, "ch1"),
     Message(<<"h", "e", "l", "l", "o">>,
             Alice, "ch1")}

Init ==
    /\ CONFIG \in [cache_sz : 0..MaxCacheSz, chunk_limit : {DefaultChunkLimit}]
    /\ InitCaches
    /\ InitIdleTok
    /\ InitIdleChunker
    /\ env \in [config : BOOLEAN, token : BOOLEAN, text_channels : Layouts]
    /\ InitGlobals

\* the whole loop of _send_message (main.py 163-174) from chunk_idx on
RECURSIVE send_message_from(_, _)
send_message_from(message, chunk_idx) ==
    LET iter == send_message_iter(message, chunk_idx)
    IN  IF iter.returned THEN iter.sent
        ELSE iter.sent \o send_message_from(message, chunk_idx + 1)

\* what channel receives when _send_message(message) runs to its end
Sent(channel, message) ==
    LET out == send_message_from(message, 0)
    IN  [i \in 1..Len(out) |->
            [channel |-> channel, kind |-> out[i].kind, text |-> out[i].text]]

\* async_exit(msg, code) (main.py 129-141)
async_exit(path, code) ==
    /\ GLOBAL_STATE' = [GLOBAL_STATE EXCEPT !.exit = code]
    /\ shutdown' = [shutdown EXCEPT !.path = path]

\* main() finds no config file, writes one and returns (main.py 687-692)
MainNoConfig ==
    /\ phase = "start"
    /\ ~env.config
    /\ phase' = "exited"
    /\ retcode' = 0
    /\ shutdown' = [shutdown EXCEPT !.cause = "noconfig"]
    /\ UNCHANGED <<CONFIG, cachevars, tokvars, smvars, env, GLOBAL_STATE,
                   DB_SESSION, cchannel, tasks, last, handled>>

\* Bot.bot(token) without a token (main.py 549-555): async_exit, and main()
\* returns from its finally (main.py 732-739)
BotNoToken ==
    /\ phase = "start"
    /\ env.config
    /\ ~env.token
    /\ GLOBAL_STATE' = [GLOBAL_STATE EXCEPT !.exit = 1]
    /\ shutdown' = [path |-> "token", cause |-> "stop"]
    /\ phase' = "exited"
    /\ retcode' = GLOBAL_STATE'.exit
    /\ UNCHANGED <<CONFIG, cachevars, tokvars, smvars, env, DB_SESSION,
                   cchannel, tasks, last, handled>>

\* Bot.bot(token) with a token: self.run(token) (main.py 555)
BotRun ==
    /\ phase = "start"
    /\ env.config
    /\ env.token
    /\ phase' = "running"
    /\ UNCHANGED <<CONFIG, cachevars, tokvars, smvars, env, GLOBAL_STATE,
                   shutdown, retcode, DB_SESSION, cchannel, tasks, last,
                   handled>>

\* the channel the loops of main.py 558-564 leave in self.cchannel
FirstSendable(text_channels) ==
    LET sendable == {i \in DOMAIN text_channels : CanSend(text_channels[i])}
    IN  IF sendable = {} THEN NoChannel
        ELSE text_channels[CHOOSE i \in sendable :
                               \A j \in sendable : i <= j]

\* on_ready (main.py 557-573)
OnReady ==
    /\ phase = "running"
    /\ LET channel == FirstSendable(env.text_channels)
       IN  IF channel = NoChannel
           THEN /\ async_exit("nochannel", 1)
                /\ phase' = "stopping"
                /\ UNCHANGED <<cchannel, last>>
           ELSE /\ cchannel' = channel
                /\ phase' = "ready"
                /\ last' = [NoCallYet EXCEPT
                               !.path = "ready", !.text = HelloMessage,
                               !.sent = Sent(channel, HelloMessage),
                               !.done = TRUE]
                /\ UNCHANGED <<GLOBAL_STATE, shutdown>>
    /\ UNCHANGED <<CONFIG, cachevars, tokvars, smvars, env, retcode,
                   DB_SESSION, tasks, handled>>

\* self.run raises, or returns at an interrupt, with no async_exit called:
\* main() returns from its finally (main.py 730-739)
RunEnds ==
    /\ phase \in {"running", "ready"}
    /\ phase' = "exited"
    /\ shutdown' = [shutdown EXCEPT !.cause = "raise"]
    /\ retcode' = GLOBAL_STATE.exit
    /\ UNCHANGED <<CONFIG, cachevars, tokvars, smvars, env, GLOBAL_STATE,
                   DB_SESSION, cchannel, tasks, last, handled>>

\* the loop async_exit stopped ends self.run, and main() returns
\* (main.py 732-739)
MainReturn ==
    /\ phase = "stopping"
    /\ phase' = "exited"
    /\ shutdown' = [shutdown EXCEPT !.cause = "stop"]
    /\ retcode' = GLOBAL_STATE.exit
    /\ UNCHANGED <<CONFIG, cachevars, tokvars, smvars, env, GLOBAL_STATE,
                   DB_SESSION, cchannel, tasks, last, handled>>

\* one more call waits at an await
Spawn(stage, call) ==
    /\ Len(tasks) < MaxTasks
    /\ tasks' = Append(tasks, [stage |-> stage, call |-> call])
    /\ last' = call

\* what a call does with the text it reached: call is the record of it,
\* channel the channel self.cchannel names
Respond(r, call, channel) ==
    IF r.await = "none"
    THEN /\ last' = [call EXCEPT !.done = TRUE]
         /\ tasks' = tasks
    ELSE IF r.await = "delete-send"
    THEN Spawn("delete", call)
    ELSE IF ~CanSend(channel)
    THEN IF r.in_try
         THEN Spawn("raised", [call EXCEPT !.raised = TRUE])
         ELSE /\ last' = [call EXCEPT !.raised = TRUE, !.propagated = TRUE,
                                      !.done = TRUE]
              /\ tasks' = tasks
    ELSE IF r.await = "send-exit"
    THEN Spawn("exit", [call EXCEPT !.sent = Sent(channel, r.text)])
    ELSE /\ last' = [call EXCEPT !.sent = Sent(channel, r.text),
                                 !.done = TRUE]
         /\ tasks' = tasks

\* self.cchannel once on_message has taken the message (main.py 582)
ChannelAfter(message, path) ==
    IF path = "ignored" THEN cchannel ELSE message.channel

\* the call leaves r behind
Begin(message, r) ==
    /\ DB_SESSION' = r.db
    /\ CACHE' = r.cache
    /\ PFORMAT_CACHE' = r.pfc
    /\ cchannel' = ChannelAfter(message, r.path)
    /\ Respond(r, Call(message, r, DB_SESSION),
               ChannelAfter(message, r.path))

\* on_message(message) (main.py 575-681) up to its first await; names is
\* the order in which a query of all rows gives the names
OnMessage(message, names) ==
    /\ phase = "ready"
    /\ handled < MaxMessages
    /\ handled' = handled + 1
    /\ Begin(message,
             on_message(message, names, DB_SESSION, CACHE, PFORMAT_CACHE))
    /\ UNCHANGED <<CONFIG, tokvars, smvars, env, phase, GLOBAL_STATE,
                   shutdown, retcode>>

\* tasks without the one at i
Without(i) == [j \in 1..(Len(tasks) - 1) |-> tasks[IF j < i THEN j ELSE j + 1]]

\* the except block of main.py 644-660: the report goes to the channel
\* self.cchannel names by now; a send that fails leaves on_message
Report(call) ==
    IF CanSend(cchannel)
    THEN [call EXCEPT !.raised = TRUE, !.reported = TRUE, !.done = TRUE,
                      !.sent = @ \o Sent(cchannel,
                                         FailureReport(call.message.author))]
    ELSE [call EXCEPT !.raised = TRUE, !.propagated = TRUE, !.done = TRUE]

\* cmd_sayd resumes after message.delete() (main.py 457-458) and sends to
\* the channel self.cchannel names by now
TaskDeleted(i) ==
    /\ phase = "ready"
    /\ i \in DOMAIN tasks
    /\ tasks[i].stage = "delete"
    /\ LET call == [tasks[i].call EXCEPT !.deleted = TRUE]
       IN  IF CanSend(cchannel)
           THEN /\ last' = [call EXCEPT !.sent = Sent(cchannel, call.text),
                                        !.done = TRUE]
                /\ tasks' = Without(i)
           ELSE /\ last' = [call EXCEPT !.raised = TRUE]
                /\ tasks' = [tasks EXCEPT ![i] = [stage |-> "raised",
                                                  call |-> last']]
    /\ UNCHANGED <<CONFIG, cachevars, tokvars, smvars, env, phase,
                   GLOBAL_STATE, shutdown, retcode, DB_SESSION, cchannel,
                   handled>>

\* message.delete() raises in cmd_sayd (main.py 457): the except block runs
TaskDeleteRaises(i) ==
    /\ phase = "ready"
    /\ i \in DOMAIN tasks
    /\ tasks[i].stage = "delete"
    /\ last' = Report(tasks[i].call)
    /\ tasks' = Without(i)
    /\ UNCHANGED <<CONFIG, cachevars, tokvars, smvars, env, phase,
                   GLOBAL_STATE, shutdown, retcode, DB_SESSION, cchannel,
                   handled>>

\* a send awaited inside the try of main.py 642 raises: the except block runs
TaskSendRaises(i) ==
    /\ phase = "ready"
    /\ i \in DOMAIN tasks
    /\ tasks[i].stage = "raised"
    /\ last' = Report(tasks[i].call)
    /\ tasks' = Without(i)
    /\ UNCHANGED <<CONFIG, cachevars, tokvars, smvars, env, phase,
                   GLOBAL_STATE, shutdown, retcode, DB_SESSION, cchannel,
                   handled>>

\* cmd_cya resumes after its send and calls async_exit (main.py 266-267)
TaskExit(i) ==
    /\ phase = "ready"
    /\ i \in DOMAIN tasks
    /\ tasks[i].stage = "exit"
    /\ async_exit("cya", 0)
    /\ phase' = "stopping"
    /\ last' = [tasks[i].call EXCEPT !.done = TRUE]
    /\ tasks' = Without(i)
    /\ UNCHANGED <<CONFIG, cachevars, tokvars, smvars, env, retcode,
                   DB_SESSION, cchannel, handled>>

Next ==
    \/ MainNoConfig
    \/ BotNoToken
    \/ BotRun
    \/ OnReady
    \/ RunEnds
    \/ MainReturn
    \/ \E message \in Messages :
          \E names \in Orders(DB_SESSION.rows) : OnMessage(message, names)
    \/ \E i \in 1..MaxTasks : TaskDeleted(i)
    \/ \E i \in 1..MaxTasks : TaskDeleteRaises(i)
    \/ \E i \in 1..MaxTasks : TaskSendRaises(i)
    \/ \E i \in 1..MaxTasks : TaskExit(i)

Spec == Init /\ [][Next]_vars

---------------------------------------------------------------------------
(* Claims about the tokenizer, the caches and get_nth_word (SpecTok).      *)

\* no empty line, no empty token, no space or newline inside a token
NoEmptyLinesOrTokens(c) ==
    \A i \in 1..Len(c) :
        /\ c[i] # <<>>
        /\ \A j \in 1..Len(c[i]) :
               /\ c[i][j] # <<>>
               /\ \A k \in 1..Len(c[i][j]) : c[i][j][k] \notin {" ", "\n"}

\* the grid is not empty, its first token does not begin and its last token
\* does not end with a character str.strip() removes
EndsSurviveStrip(c) ==
    /\ c # <<>>
    /\ c[1][1][1] \notin Whitespace
    /\ LET line == c[Len(c)]
           tok == line[Len(line)]
       IN  tok[Len(tok)] \notin Whitespace

\* the last two calls were command_to_str(c) and then str_to_command on
\* its result
RoundTripMade == tk_prev.op = "c2s" /\ tk_last.op = "s2c"

\* C3, as stated: for any command grid c with no empty lines and no empty
\* tokens (tokens containing no space or newline),
\* str_to_command(command_to_str(c)) = c, whatever the caches hold.
C3_RoundTripAnyGrid ==
    (RoundTripMade /\ NoEmptyLinesOrTokens(tk_prev.arg))
        => tk_last.res = tk_prev.arg

\* C3, amended: the round trip str_to_command(command_to_str(c)) = c holds,
\* whatever the caches hold, for every non-empty grid c with no empty lines
\* and no empty tokens, tokens containing no space or newline, whose first
\* token does not begin and whose last token does not end with a whitespace
\* character.
C3_RoundTrip ==
    (RoundTripMade /\ NoEmptyLinesOrTokens(tk_prev.arg)
                   /\ EndsSurviveStrip(tk_prev.arg))
        => tk_last.res = tk_prev.arg

\* a round trip of a grid with a tab inside a token returned the grid
C3_Witness ==
    /\ RoundTripMade
    /\ NoEmptyLinesOrTokens(tk_prev.arg)
    /\ EndsSurviveStrip(tk_prev.arg)
    /\ \E i \in 1..Len(tk_prev.arg) : \E j \in 1..Len(tk_prev.arg[i]) :
           \E k \in 1..Len(tk_prev.arg[i][j]) : tk_prev.arg[i][j][k] = "\t"
    /\ tk_grid = tk_prev.arg

\* C6: on a grid whose lines are all non-empty and for 0 <= n < number of
\* lines, get_nth_word returns the first token of line n and removes exactly
\* that token in place, every other token and line unchanged; a second call
\* with n = 0 after a call with n = 0 returns the token that followed.
C6_GetNthWord ==
    /\ (tk_last.op = "nth" /\ AllLines(tk_last.arg)
                           /\ tk_last.n < Len(tk_last.arg))
           => /\ tk_last.res = tk_last.arg[tk_last.n + 1][1]
              /\ Len(tk_grid) = Len(tk_last.arg)
              /\ \A i \in 1..Len(tk_grid) :
                     IF i = tk_last.n + 1
                     THEN tk_grid[i] = Tail(tk_last.arg[i])
                     ELSE tk_grid[i] = tk_last.arg[i]
    /\ (tk_prev.op = "nth" /\ tk_last.op = "nth"
            /\ tk_prev.n = 0 /\ tk_last.n = 0
            /\ AllLines(tk_prev.arg) /\ tk_prev.arg # <<>>
            /\ AllLines(tk_last.arg))
           => /\ tk_prev.res = tk_prev.arg[1][1]
              /\ tk_last.res = tk_prev.arg[1][2]

\* two calls with n = 0 returned the first and then the second token of a
\* line, which differ, and a second line was left as it was
C6_Witness ==
    /\ tk_prev.op = "nth" /\ tk_last.op = "nth"
    /\ tk_prev.n = 0 /\ tk_last.n = 0
    /\ AllLines(tk_prev.arg) /\ AllLines(tk_last.arg)
    /\ Len(tk_prev.arg) = 2
    /\ tk_prev.res # tk_last.res
    /\ tk_last.res # None
    /\ tk_grid = << <<>>, tk_prev.arg[2] >>

\* the cache the last call worked on, as the call left it
LastCache ==
    CASE tk_last.op = "s2c" -> CACHE.s2c
      [] tk_last.op = "c2s" -> CACHE.c2s
      [] tk_last.op = "pformat" -> PFORMAT_CACHE
      [] OTHER -> EmptyCache

\* C7: for each of the three caches, a call that finds the population
\* strictly greater than cache-sz clears the whole cache before the key is
\* looked up, even if the key was present: the call leaves a population of at
\* most 1, holding no entry but the one of the key just looked up.
C7_CacheCleared ==
    (tk_last.op \in {"s2c", "c2s", "pformat"}
        /\ Cardinality(tk_last.keys) > CONFIG.cache_sz)
        => /\ Population(LastCache) <= 1
           /\ DOMAIN LastCache \subseteq {tk_last.key}

\* with cache-sz = 1, a str_to_command call found two entries, its own key
\* among them, and left one
C7_Witness ==
    /\ tk_last.op = "s2c"
    /\ CONFIG.cache_sz = 1
    /\ Cardinality(tk_last.keys) = 2
    /\ tk_last.key \in tk_last.keys
    /\ DOMAIN CACHE.s2c = {tk_last.key}

\* the last two calls were str_to_command(s) and then command_to_str on
\* its result
TextRoundTripMade ==
    /\ tk_prev.op = "s2c" /\ tk_last.op = "c2s"
    /\ tk_last.arg = tk_prev.res

\* text s holds two characters c in a row
HasRun(s, c) == \E i \in 1..(Len(s) - 1) : s[i] = c /\ s[i + 1] = c

\* C11, as stated: for every text s, command_to_str(str_to_command(s))
\* holds no run of several spaces and no run of several newlines.
C11_RunsCollapsed ==
    TextRoundTripMade
        => ~HasRun(tk_last.res, " ") /\ ~HasRun(tk_last.res, "\n")

\* C11, amended: for every text s, command_to_str(str_to_command(s))
\* normalizes the whitespace at the two ends of s only: the result neither
\* begins nor ends with a whitespace character, and it holds a run of
\* several spaces, or of several newlines, exactly when s without its
\* leading and trailing whitespace holds one.
C11_EndsTrimmedRunsKept ==
    TextRoundTripMade =>
        LET s == tk_prev.arg
            r == tk_last.res
        IN  /\ r # <<>> => r[1] \notin Whitespace /\ r[Len(r)] \notin Whitespace
            /\ HasRun(r, " ") <=> HasRun(Strip(s), " ")
            /\ HasRun(r, "\n") <=> HasRun(Strip(s), "\n")

\* a text with a run of spaces between two tokens went through the round
\* trip and came back with the run in it
C11_Witness ==
    /\ TextRoundTripMade
    /\ HasRun(tk_prev.arg, " ")
    /\ tk_prev.arg[1] \notin Whitespace
    /\ HasRun(tk_last.res, " ")

\* C12: for every text s, command_to_str(str_to_command(s)) is s.strip(),
\* whatever the caches hold.
C12_TextRoundTrip ==
    TextRoundTripMade => tk_last.res = Strip(tk_prev.arg)

\* a text with whitespace at an end and a token in it went through the round
\* trip
C12_Witness ==
    /\ TextRoundTripMade
    /\ tk_prev.arg # Strip(tk_prev.arg)
    /\ Strip(tk_prev.arg) # <<>>
    /\ tk_last.res = Strip(tk_prev.arg)

\* the last call looked its key up in a cache that held it and was not
\* over its limit
LastCallHit ==
    /\ tk_last.key \in tk_last.keys
    /\ Cardinality(tk_last.keys) <= CONFIG.cache_sz

\* C17: the caches are an optimization only: str_to_command,
\* command_to_str and pformat_cached return what the uncached computation
\* gives for the same input, hit or miss, also after the caller has mutated
\* a grid that an earlier call returned.
C17_CachesTransparent ==
    /\ tk_last.op = "s2c" => tk_last.res = StrToCommandCompute(tk_last.arg)
    /\ tk_last.op = "c2s" => tk_last.res = CommandToStrCompute(tk_last.arg)
    /\ tk_last.op = "pformat" => tk_last.res = pformat(tk_last.arg)

\* str_to_command answered from its cache after get_nth_word had taken a
\* token out of the grid an earlier call returned for the same text
C17_Witness ==
    /\ tk_calls = MaxCalls
    /\ tk_prev.op = "nth" /\ tk_prev.res # None
    /\ tk_last.op = "s2c" /\ LastCallHit
    /\ tk_prev.arg = StrToCommandCompute(tk_last.arg)
    /\ tk_last.res = tk_prev.arg

\* C18: get_nth_word returns None and leaves the command as it is when n is
\* not the index of a line or the command holds an empty line; so once a
\* call has emptied a line, the next call returns None whatever the other
\* lines hold.
C18_GetNthWordAbsent ==
    /\ (tk_last.op = "nth"
            /\ (tk_last.n >= Len(tk_last.arg) \/ ~AllLines(tk_last.arg)))
        => tk_last.res = None /\ tk_grid = tk_last.arg
    /\ (tk_prev.op = "nth" /\ tk_prev.res # None /\ tk_last.op = "nth"
            /\ \E i \in 1..Len(tk_last.arg) : tk_last.arg[i] = <<>>)
        => tk_last.res = None /\ tk_grid = tk_last.arg

\* a call emptied one line of a grid whose other line holds a token, and
\* the next call returned None
C18_Witness ==
    /\ tk_prev.op = "nth" /\ tk_prev.res # None
    /\ tk_last.op = "nth" /\ tk_last.res = None
    /\ \E i \in 1..Len(tk_grid) : tk_grid[i] = <<>>
    /\ \E i \in 1..Len(tk_grid) : tk_grid[i] # <<>>
    /\ tk_grid = tk_last.arg

---------------------------------------------------------------------------
(* Claims about the chunker (SpecChunk).                                   *)

\* the outputs of kind k among what was sent
SentOfKind(k) == {i \in 1..Len(sm_out) : sm_out[i].kind = k}

\* C4: when a text splits into more chunks than the chunk-limit L,
\* _send_message emits exactly L content chunks followed by exactly one
\* truncation warning and drops the rest; with L = 2 and 4 chunks exactly 3
\* outputs are emitted (2 content chunks + 1 warning).
C4_LimitChunksThenWarning ==
    (sm_returned /\ NumChunks(sm_message) > CONFIG.chunk_limit)
        => /\ Len(sm_out) = CONFIG.chunk_limit + 1
           /\ SentOfKind("chunk") = 1..CONFIG.chunk_limit
           /\ SentOfKind("warning") = {CONFIG.chunk_limit + 1}


\* the content payloads sent so far, in the order they were sent
ContentSent ==
    LET IsContent(e) == e.kind = "chunk"
        chunks == SelectSeq(sm_out, IsContent)
    IN  [i \in 1..Len(chunks) |-> chunks[i].text]

\* s is a prefix of t
IsPrefix(s, t) == Len(s) <= Len(t) /\ s = SubSeq(t, 1, Len(s))

\* C20: what _send_message has sent as content is in input order: each
\* content payload is at most 2000 characters long and the concatenation
\* of the content payloads sent so far is a prefix of the text.
C20_ChunksArePrefix ==
    /\ \A i \in 1..Len(ContentSent) : Len(ContentSent[i]) <= ChunkSize
    /\ IsPrefix(Concat(ContentSent), sm_message)

---------------------------------------------------------------------------
(* Claims about the bot (Spec).                                            *)

\* last is the record of an on_message call
IsCall == last.path \notin {"none", "ready"}

\* the one payload a text shorter than a chunk is sent as
OneChunk(channel, text) ==
    <<[channel |-> channel, kind |-> "chunk", text |-> text \o <<"\n">>]>>

\* a row set of a store at rest
AtRest(db) == db.pending = {}

\* C1: every message on_message accepts whose author holds only the
\* implicit base role is answered with the permission-denied text and runs
\* no cmd_* handler.  (The claim as stated; the note-prefix branch of
\* main.py 587-603 returns before the gate of main.py 605-620.)
C1_BaseRoleDenied ==
    (IsCall /\ Accepted(last.message)
        /\ last.message.author.roles = {"everyone"})
    => /\ last.text = M(PermissionDenied, last.message.author)
       /\ last.handler = "none"

\* C2: a set under a name the store already holds is answered with the
\* already-exists text and leaves the store as it was: the same rows with
\* the same contents and no row pending, so that whatever follows starts
\* from the very store it would have started from without the failed set.
C2_DuplicateSet ==
    (IsCall /\ last.handler = "set" /\ last.note_name # None
        /\ last.note_name \in DOMAIN last.before.rows)
    => /\ last.text = M(NoteText(last.note_name, AlreadyExists),
                        last.message.author)
       /\ last.after = last.before
       /\ AtRest(last.after)
       /\ (last.done /\ CanSend(last.message.channel)
            => last.sent = OneChunk(last.message.channel, last.text))

\* a second set of 'greeting' with another content has been refused
C2_Witness ==
    /\ last.handler = "set"
    /\ last.outcome = "exists"
    /\ last.done
    /\ last.message.content =
         <<"'", "s", "e", "t", " ", "g", "r", "e", "e", "t", "i", "n", "g",
           " ", "b", "y", "e">>
    /\ last.before.rows[last.note_name]
         = <<"h", "e", "l", "l", "o", " ", "t", "h", "e", "r", "e">>
    /\ DB_SESSION.rows[last.note_name]
         = <<"h", "e", "l", "l", "o", " ", "t", "h", "e", "r", "e">>

SetGreeting ==
    <<"'", "s", "e", "t", " ", "g", "r", "e", "e", "t", "i", "n", "g", " ",
      "h", "e", "l", "l", "o", " ", "t", "h", "e", "r", "e">>
InvokeGreeting ==
    <<"'", "\"", "g", "r", "e", "e", "t", "i", "n", "g">>
Greeting == <<"g", "r", "e", "e", "t", "i", "n", "g">>
HelloThere == <<"h", "e", "l", "l", "o", " ", "t", "h", "e", "r", "e">>

\* C5: from a store without 'greeting', the message 'set greeting hello
\* there of an author the gate lets through adds exactly the note
\* greeting -> "hello there" and is answered with the saved text; the
\* message '"greeting met by a store holding that note is answered with
\* "> hello there" and leaves the store unchanged.  An answer is the text
\* handed to _send_message, sent as one payload where the bot may send.
C5_EndToEnd ==
    /\ (IsCall /\ last.message.content = SetGreeting
           /\ HasGuild(last.message.channel) /\ Gate(last.message)
           /\ Accepted(last.message)
           /\ Greeting \notin DOMAIN last.before.rows)
       => /\ DOMAIN last.after.rows = DOMAIN last.before.rows \cup {Greeting}
          /\ last.after.rows[Greeting] = HelloThere
          /\ \A n \in DOMAIN last.before.rows :
                last.after.rows[n] = last.before.rows[n]
          /\ AtRest(last.after)
          /\ last.text
               = M(<<"N", "o", "t", "e", " ", "'", "g", "r", "e", "e", "t",
                     "i", "n", "g", "'", " ", "s", "a", "v", "e", "d">>,
                   last.message.author)
          /\ (last.done /\ CanSend(last.message.channel)
               => last.sent = OneChunk(last.message.channel, last.text))
    /\ (IsCall /\ last.message.content = InvokeGreeting
           /\ Accepted(last.message)
           /\ Greeting \in DOMAIN last.before.rows
           /\ last.before.rows[Greeting] = HelloThere)
       => /\ last.text = <<">", " ", "h", "e", "l", "l", "o", " ", "t", "h",
                          "e", "r", "e">>
          /\ last.after = last.before
          /\ (last.done /\ CanSend(last.message.channel)
               => last.sent = OneChunk(last.message.channel, last.text))

\* the note saved by the first message has been invoked by the second
C5_Witness ==
    /\ last.message.content = InvokeGreeting
    /\ last.done
    /\ handled >= 2
    /\ Greeting \in DOMAIN last.before.rows
    /\ last.before.rows[Greeting] = HelloThere
    /\ last.sent # <<>>

\* C8: an exception raised while a handler runs for a message is caught by
\* on_message and reported to the author, and does not leave on_message.
\* (The claim as stated; cmd_list is awaited at main.py 599 outside the try
\* of main.py 642, and the report of main.py 649 is itself a send.)
C8_HandlerFailureContained ==
    (IsCall /\ last.done /\ last.handler # "none" /\ last.raised)
    => last.reported /\ ~last.propagated

\* C9: once a run that got as far as Bot.bot has ended, the code main()
\* returns is 0 only after cya, is 1 after the startup failures that call
\* async_exit, and is not 0 when no shutdown path has set a code.  (The
\* claim as stated, the first start, which only writes the config file and
\* returns 0 at main.py 692, left aside.)
C9_ExitCode ==
    (phase = "exited" /\ shutdown.cause # "noconfig")
    => /\ (retcode = 0 => shutdown.path = "cya")
       /\ (shutdown.path \in {"token", "nochannel"} => retcode = 1)
       /\ (shutdown.path = "none" => retcode # 0)

\* C10 as stated: on the note-prefix branch an empty name is answered with
\* the listing, a non-empty name not in the store with the not-found text,
\* and the store is unchanged.
C10_EmptyOrMissing ==
    (IsCall /\ last.path = "note")
    => /\ (last.note_name = <<>>
            => \E names \in Orders(last.before.rows) :
                  last.text = ListText(names))
       /\ (last.note_name # <<>>
              /\ last.note_name \notin DOMAIN last.before.rows
            => last.text = M(NoteText(last.note_name, NotFound),
                             last.message.author))
       /\ last.after = last.before

\* C10 amended: on the note-prefix branch, a name under which a note is
\* stored is answered with that note quoted; otherwise a blank name (empty
\* or whitespace only) is answered with the listing and any other name with
\* the not-found text; the store is unchanged in each case.
C10_BlankOrMissing ==
    (IsCall /\ last.path = "note")
    => /\ IF last.note_name \in DOMAIN last.before.rows
          THEN last.text = Quote(last.before.rows[last.note_name])
          ELSE IF Strip(last.note_name) = <<>>
          THEN \E names \in Orders(last.before.rows) :
                  last.text = ListText(names)
          ELSE last.text = M(NoteText(last.note_name, NotFound),
                             last.message.author)
       /\ last.after = last.before

\* a name of whitespace met a store that holds notes, and got the listing
C10_Witness ==
    /\ last.path = "note"
    /\ last.note_name = <<"\t">>
    /\ DOMAIN last.before.rows # {}
    /\ last.outcome = "listing"
    /\ last.done


\* C13: del of a name the store does not hold is answered with the
\* doesn't-exist text and leaves the store as it was; del of a name it
\* holds removes that row and no other: every other name is still there
\* with the content it had.
C13_Delete ==
    (IsCall /\ last.handler = "del" /\ last.note_name # None)
    => IF last.note_name \notin DOMAIN last.before.rows
       THEN /\ last.text = M(NoteText(last.note_name, DoesntExist),
                             last.message.author)
            /\ last.after = last.before
       ELSE /\ last.text = M(NoteText(last.note_name, Deleted),
                             last.message.author)
            /\ DOMAIN last.after.rows
                 = DOMAIN last.before.rows \ {last.note_name}
            /\ \A n \in DOMAIN last.after.rows :
                 last.after.rows[n] = last.before.rows[n]
            /\ last.after.pending = last.before.pending

\* a del removed one note of a store that held another, which is still
\* there
C13_Witness ==
    /\ last.handler = "del"
    /\ last.outcome = "deleted"
    /\ last.done
    /\ last.note_name \in DOMAIN last.before.rows
    /\ DB_SESSION = last.after
    /\ DOMAIN DB_SESSION.rows # {}

\* a del of a name the store does not hold
C13_WitnessMissing ==
    /\ last.handler = "del"
    /\ last.outcome = "missing"
    /\ last.done


\* the last call was for a prefix command, not a note invocation, sent in a
\* guild channel by an author who is not a bot and holds the role the gate
\* admits
PermittedCommand ==
    /\ IsCall
    /\ ~last.message.author.bot
    /\ StartsWith(last.message.content, Prefix)
    /\ ~StartsWith(RemovePrefix(last.message.content, Prefix), NotePrefix)
    /\ HasGuild(last.message.channel)
    /\ "member" \in last.message.author.roles

\* the text after the prefix and its leading token
CommandStr == RemovePrefix(last.message.content, Prefix)
LeadingToken == StrToCommandCompute(CommandStr)[1][1]

\* C14: a permitted author's command whose leading token names no handler
\* is answered with the unknown-command text for that token, sent once; no
\* handler runs and the store is left as it was.
C14_UnknownCommand ==
    (PermittedCommand /\ LeadingToken \notin HandlerNames)
    => /\ last.text
            = M(<<"U", "n", "k", "n", "o", "w", "n", " ", "c", "o", "m", "m",
                  "a", "n", "d", ":", " ">> \o ReprStr(LeadingToken),
                last.message.author)
       /\ last.handler = "none"
       /\ last.after = last.before
       /\ DB_SESSION = last.before
       /\ (CanSend(last.message.channel)
            => last.done
               /\ last.sent = OneChunk(last.message.channel, last.text))

\* 'nope was answered after a note had been stored
C14_Witness ==
    /\ PermittedCommand
    /\ LeadingToken = <<"n", "o", "p", "e">>
    /\ last.done
    /\ Len(last.sent) = Len(OneChunk(last.message.channel, last.text))
    /\ DOMAIN DB_SESSION.rows # {}

\* C15, as stated: a permitted author's command whose text after the prefix
\* is empty or only whitespace is answered with the no-command text or the
\* no-valid-tokens report, not with the unknown-command text, and no
\* handler is looked up or run.
C15_ParseEmpty ==
    (PermittedCommand /\ Strip(CommandStr) = <<>>)
    => /\ \/ last.text = M(NoCommand, last.message.author)
          \/ last.text = InvalidTokens(CommandStr,
                                       pformat(StrToCommandCompute(CommandStr)),
                                       last.message.author)
       /\ last.text # M(UnknownCommand(LeadingToken), last.message.author)
       /\ last.handler = "none"


\* C16, as stated: no on_message call begins while another waits to go on,
\* and every payload of a response is sent to the channel of the message
\* that caused it.
C16_OneInFlight ==
    /\ tasks # <<>> => last = tasks[Len(tasks)].call
    /\ IsCall => \A i \in 1..Len(last.sent) :
                    last.sent[i].channel = last.message.channel


\* the last call was for a prefix command, not a note invocation, sent in a
\* guild channel by an author who is not a bot
GatedCommand ==
    /\ IsCall
    /\ ~last.message.author.bot
    /\ StartsWith(last.message.content, Prefix)
    /\ ~StartsWith(RemovePrefix(last.message.content, Prefix), NotePrefix)
    /\ HasGuild(last.message.channel)

\* the call went past the gate, to the resolution of the handler
Admitted == last.path \in {"nocommand", "invalid", "unknown", "handler"}

\* the call was answered with the permission-denied text and went no further
Denied ==
    /\ last.path = "denied"
    /\ last.text = M(PermissionDenied, last.message.author)
    /\ last.handler = "none"
    /\ last.after = last.before

ToIgnore(message) ==
    \/ message.author.bot
    \/ /\ ~StartsWith(message.content, Prefix)
       /\ ~StartsWith(message.content, NotePrefix)

\* C21: an on_message call for a message written by a bot, or starting with
\* neither the command prefix nor the note prefix, sends nothing, leaves no
\* call waiting, and leaves the note store, the tokenizer caches, the
\* pformat cache and the current channel as they were.
C21_Ignored ==
    [][(handled' = handled + 1 /\ ToIgnore(last'.message))
        => /\ last'.sent = <<>>
           /\ last'.done
           /\ last'.handler = "none"
           /\ tasks' = tasks
           /\ DB_SESSION' = DB_SESSION
           /\ CACHE' = CACHE
           /\ PFORMAT_CACHE' = PFORMAT_CACHE
           /\ cchannel' = cchannel]_vars

\* a bot's command arrived in a channel other than the current one, after a
\* note had been stored and the tokenizer cache filled, and was ignored
C21_Witness ==
    /\ IsCall
    /\ last.message.author.bot
    /\ StartsWith(last.message.content, Prefix)
    /\ last.sent = <<>>
    /\ last.done
    /\ cchannel \notin {last.message.channel, NoChannel}
    /\ DOMAIN DB_SESSION.rows # {}
    /\ DB_SESSION = last.before

\* a member's message without a prefix arrived in a channel other than the
\* current one and was ignored
C21_WitnessNoPrefix ==
    /\ IsCall
    /\ ~last.message.author.bot
    /\ ToIgnore(last.message)
    /\ last.sent = <<>>
    /\ last.done
    /\ cchannel \notin {last.message.channel, NoChannel}

===========================================================================
